---- MODULE Spec2Model ----
(***************************************************************************)
(* Model of the diagram-driven task graph executor                         *)
(* (execute_process_from_diagram, app/services/diagram_service.py).        *)
(*                                                                         *)
(* A run takes a diagram document (declared nodes and a list of links),    *)
(* builds a networkx DiGraph from the links, sorts it topologically and    *)
(* then processes, node by node, every outgoing edge: either reusing the   *)
(* node's stored result or calling the task executor (Crew.kickoff_async). *)
(* Texts are modelled as sequences of entries, so that "a += b" is         *)
(* concatenation and containment/prefix questions stay decidable.          *)
(***************************************************************************)
EXTENDS Integers, Sequences, FiniteSets, TLC

\* ---------------------------------------------------------------- bounds
\* longest list of links of a diagram
MaxLinks == 3

\* the node keys a diagram may use; data['nodes'] declares a prefix of them
KeySeq == <<"A", "B", "C">>
Keys == { KeySeq[n] : n \in 1..Len(KeySeq) }
\* the texts the task executor may return
Outputs == {"x", "y"}
NoResult == "none"
\* roles of the declared agents; two keys may carry the same role
Roles == <<"R1", "R2">>

VARIABLES
    nodeCount,      \* data['nodes'] declares KeySeq[1..nodeCount], in this order
    links,          \* data['links']: sequence of [from, to]
    pc,             \* position of the run
    backstory,      \* agents_dict[k].backstory, a sequence of entries
    agent_results,  \* agent_results: key -> output (NoResult: key absent)
    all_results,    \* all_results: formatted transcript entries
    task_order,     \* task_order
    roots,          \* roots
    i,              \* position of the outer loop in task_order
    j,              \* position of the inner loop in the out-edges of the node
    events,         \* messages handed to manager.broadcast, in order
    calls,          \* calls of crew.kickoff_async: [from, to, link, outcome, out]
    processed,      \* edges whose loop body has finished: [from, to, how]
    dispatch_log,   \* node keys taken by the outer loop, in order
    result          \* the returned dict

\* the variables of one run of execute_process_from_diagram
runVars == <<nodeCount, links, pc, backstory, agent_results, all_results, task_order,
             roots, i, j, events, calls, processed, dispatch_log, result>>

VARIABLES
    node_file,           \* per node: how its 'file' is used while the agents are built
    active_connections,  \* manager.active_connections
    bpc,                 \* position of the broadcast that serves the run
    bidx,                \* index the "for connection in ..." iterator reads next
    cur,                 \* the connection of the send in flight
    disconnected,        \* the list "disconnected" of the broadcast
    pubDone,             \* number of events of the run whose broadcast has returned
    sent,                \* sends of the current broadcast: [to, ok]
    file_use,            \* two runs: how the node of each run uses the file
    oracle,              \* two runs: what the task executor answers with its material intact
    summ,                \* two runs: what the summary provider answers to each run
    rpc,                 \* two runs: position of each run
    chroma,              \* the ChromaDB store under "db/": runs whose index it holds
    txt,                 \* the file "<pdf>.txt" of the folder: "none" or the summary in it
    ctx,                 \* two runs: the file summary in the backstory of the run's agent
    got,                 \* two runs: did the tool of the run find its index
    rresult              \* two runs: the returned dict of each run

VARIABLES
    tokens,              \* the session tokens issued so far (login, middleware)
    invalidated_tokens,  \* auth.invalidated_tokens
    expired,             \* the issued tokens whose "exp" has passed
    req,                 \* the requests in progress: kind, cookie carried, position
    answer,              \* what the handler of each request decided about its token
    cookie               \* the session cookie set on the response of each request

\* the session state of the process
authVars == <<tokens, invalidated_tokens, expired, req, answer, cookie>>

\* everything outside a single run: left alone by the steps of the run
envVars == <<node_file, active_connections, bpc, bidx, cur, disconnected, pubDone, sent,
             file_use, oracle, summ, rpc, chroma, txt, ctx, got, rresult,
             tokens, invalidated_tokens, expired, req, answer, cookie>>

vars == <<runVars, envVars>>

\* ------------------------------------------------------------- the input
NodeKeys == { KeySeq[n] : n \in 1..nodeCount }

LinkSet == [from : Keys, to : Keys]

RECURSIVE SeqsUpTo(_, _)
SeqsUpTo(S, n) ==
    IF n = 0 THEN { <<>> }
    ELSE LET shorter == SeqsUpTo(S, n - 1)
         IN  shorter \cup { Append(s, e) : s \in { t \in shorter : Len(t) = n - 1 }, e \in S }

\* Position of the first occurrence of x in s, 0 when absent
RECURSIVE IndexFrom(_, _, _)
IndexFrom(s, x, n) ==
    IF n > Len(s) THEN 0
    ELSE IF s[n] = x THEN n ELSE IndexFrom(s, x, n + 1)

IndexOf(s, x) == IndexFrom(s, x, 1)

Contains(s, x) == IndexOf(s, x) # 0

\* node.get('role', ''): the roles are dealt out in turn, so "A" and "C" share one
NodeRole(k) == Roles[((IndexOf(KeySeq, k) - 1) % Len(Roles)) + 1]

\* node.get('backstory', '')
InitialBackstory(k) == << [kind |-> "backstory", role |-> NodeRole(k), text |-> "own"] >>

\* how a node uses its file: "none" (no file, or the file is missing),
\* "rag" (rag = "Yes": a tool on the file, no summary), "Force" / "Yes" (summarize)
FileUses == {"none", "rag", "Force", "Yes"}

\* the backstory of the agent once the summary of its file is added
AgentBackstory(k, use) ==
    IF use \in {"Force", "Yes"}
    THEN InitialBackstory(k) \o << [kind |-> "file", role |-> NodeRole(k), text |-> "summary"] >>
    ELSE InitialBackstory(k)

\* ------------------------------------------------- networkx DiGraph
AddOnce(s, x) == IF Contains(s, x) THEN s ELSE Append(s, x)

\* task_graph.nodes: every endpoint, in first-seen order (add_edge adds u, then v)
RECURSIVE GraphNodesFrom(_, _, _)
GraphNodesFrom(ls, n, acc) ==
    IF n > Len(ls) THEN acc
    ELSE GraphNodesFrom(ls, n + 1, AddOnce(AddOnce(acc, ls[n].from), ls[n].to))

GraphNodes(ls) == GraphNodesFrom(ls, 1, <<>>)

\* task_graph.adj[u]: successors of u in first-seen order; a repeated (u, v)
\* pair keeps its place and only updates the edge attributes
RECURSIVE SuccessorsFrom(_, _, _, _)
SuccessorsFrom(ls, u, n, acc) ==
    IF n > Len(ls) THEN acc
    ELSE SuccessorsFrom(ls, u, n + 1,
                        IF ls[n].from = u THEN AddOnce(acc, ls[n].to) ELSE acc)

Successors(ls, u) == SuccessorsFrom(ls, u, 1, <<>>)

\* attributes of edge (u, v): those of the last link added for that pair
\* (the description and expected_output of link n are identified by n)
EdgeData(ls, u, v) ==
    LET idx == { n \in 1..Len(ls) : ls[n].from = u /\ ls[n].to = v }
    IN  CHOOSE n \in idx : \A m \in idx : m <= n

\* task_graph.in_degree(v): number of distinct predecessors
InDegree(ls, v) == Cardinality({ u \in Keys : Contains(Successors(ls, u), v) })

\* ---------------------------------------- networkx topological_sort
\* (Kahn's algorithm by generations, networkx >= 2.6)
RECURSIVE VisitChildren(_, _, _, _)
VisitChildren(children, c, indeg, zero) ==
    IF c > Len(children) THEN [indeg |-> indeg, zero |-> zero]
    ELSE LET child == children[c]
             d == indeg[child] - 1
         IN  VisitChildren(children, c + 1, [indeg EXCEPT ![child] = d],
                           IF d = 0 THEN Append(zero, child) ELSE zero)

RECURSIVE VisitGeneration(_, _, _, _, _)
VisitGeneration(ls, gen, n, indeg, zero) ==
    IF n > Len(gen) THEN [indeg |-> indeg, zero |-> zero]
    ELSE LET r == VisitChildren(Successors(ls, gen[n]), 1, indeg, zero)
         IN  VisitGeneration(ls, gen, n + 1, r.indeg, r.zero)

RECURSIVE Generations(_, _, _, _)
Generations(ls, zero, indeg, order) ==
    IF zero = <<>> THEN [indeg |-> indeg, order |-> order]
    ELSE LET r == VisitGeneration(ls, zero, 1, indeg, <<>>)
         IN  Generations(ls, r.zero, r.indeg, order \o zero)

ZeroInDegree(ls) ==
    LET IsRoot(v) == InDegree(ls, v) = 0
    IN  SelectSeq(GraphNodes(ls), IsRoot)

Unfeasible_Never(indeg) == FALSE

\* "if indegree_map: raise NetworkXUnfeasible"
Unfeasible(indeg) == \E v \in Keys : indeg[v] > 0

TopologicalSort_Insertion(ls) ==
    LET indeg0 == [v \in Keys |-> InDegree(ls, v)]
        r == Generations(ls, ZeroInDegree(ls), indeg0, <<>>)
    IN  [unfeasible |-> Unfeasible(r.indeg), order |-> GraphNodes(ls)]

\* list(nx.topological_sort(task_graph))
TopologicalSort(ls) ==
    LET indeg0 == [v \in Keys |-> InDegree(ls, v)]
        r == Generations(ls, ZeroInDegree(ls), indeg0, <<>>)
    IN  [unfeasible |-> Unfeasible(r.indeg), order |-> r.order]

\* "roots = [node for node in task_graph.nodes if task_graph.in_degree(node) == 0]"
Roots_OutDegree(ls) ==
    LET IsLeaf(v) == Successors(ls, v) = <<>>
    IN  SelectSeq(GraphNodes(ls), IsLeaf)

Roots(ls) ==
    LET IsRoot(v) == InDegree(ls, v) = 0
    IN  SelectSeq(GraphNodes(ls), IsRoot)

\* ------------------------------------------------------- texts and events
\* f"\n\nRésultat de {from_agent.role} : {result}"
ResultEntry(role, out) == [kind |-> "result", role |-> role, text |-> out]

AppendResult_Replace(bs, to, role, out) == [bs EXCEPT ![to] = << ResultEntry(role, out) >>]

\* to_agent.backstory += f"\n\nRésultat de {from_agent.role} : {result}"
AppendResult(bs, to, role, out) == [bs EXCEPT ![to] = @ \o << ResultEntry(role, out) >>]

\* the formatted_result of a task: agent role, task description, raw output
FormattedResult(role, link, out) == [agent |-> role, description |-> link, result |-> out]

\* the initial {"type": "agent_highlight", "agent_id": key, "status": "inactive"}
InitEvent(k) == [agent_id |-> k, status |-> "inactive", task |-> "absent", role |-> "", link |-> 0]

\* status "active" with task_description = task.description
ActiveEvent(k, link) == [agent_id |-> k, status |-> "active", task |-> "description", role |-> "", link |-> link]

\* the reuse is announced like an invocation, with the description of the task
ReuseEvent_AsTask(k, role) ==
    [agent_id |-> k, status |-> "active", task |-> "description", role |-> "", link |-> 0]

\* status "active" with task_description = f"Réutilisation du résultat de {role}"
ReuseEvent(k, role) == [agent_id |-> k, status |-> "active", task |-> "reuse", role |-> role, link |-> 0]

\* status "inactive" with task_description = ""
InactiveEvent(k) == [agent_id |-> k, status |-> "inactive", task |-> "empty", role |-> "", link |-> 0]

\* ------------------------------------------------------------ the run
\* no node names a file
NoFiles == node_file = [k \in Keys |-> "none"]

\* no observer is connected and no broadcast is modelled
PubOff ==
    /\ active_connections = <<>>
    /\ bpc = "idle"
    /\ bidx = 0
    /\ cur = "none"
    /\ disconnected = <<>>
    /\ pubDone = 0
    /\ sent = <<>>

Runs == {"r1", "r2"}

\* no second run
TwoOff ==
    /\ file_use = [r \in Runs |-> "none"]
    /\ oracle = [r \in Runs |-> "fail"]
    /\ summ = [r \in Runs |-> "none"]
    /\ rpc = [r \in Runs |-> "off"]
    /\ chroma = {}
    /\ txt = "none"
    /\ ctx = [r \in Runs |-> "none"]
    /\ got = [r \in Runs |-> FALSE]
    /\ rresult = [r \in Runs |-> [status |-> "none"]]

Reqs == {"q1", "q2"}

\* no session and no request
AuthOff ==
    /\ tokens = {}
    /\ invalidated_tokens = {}
    /\ expired = {}
    /\ req = [q \in Reqs |-> [kind |-> "none", token |-> 0, pos |-> "idle"]]
    /\ answer = [q \in Reqs |-> "none"]
    /\ cookie = [q \in Reqs |-> 0]

\* the locals of execute_process_from_diagram at its first line
RunStart ==
    /\ pc = "start"
    /\ backstory = [k \in Keys |-> <<>>]
    /\ agent_results = [k \in Keys |-> NoResult]
    /\ all_results = <<>>
    /\ task_order = <<>>
    /\ roots = <<>>
    /\ i = 0
    /\ j = 0
    /\ events = <<>>
    /\ calls = <<>>
    /\ processed = <<>>
    /\ dispatch_log = <<>>
    /\ result = [status |-> "none"]

Init ==
    /\ nodeCount \in 0..Len(KeySeq)
    /\ links \in SeqsUpTo(LinkSet, MaxLinks)
    /\ RunStart
    /\ AuthOff
    /\ NoFiles
    /\ PubOff
    /\ TwoOff

KeyMissing_Never(k) == FALSE

\* nodes[key] / agents_dict[key] raises KeyError for a key no node declares
KeyMissing(k) == k \notin NodeKeys

HasResult_Never(k) == FALSE

\* "if from_key in agent_results"
HasResult(k) == agent_results[k] # NoResult

\* the "except Exception as e" of the whole function: a structured error result
ErrorResult(msg) == [status |-> "error", message |-> msg]

\* only the agents that take part in the task graph are reported
Backstories_GraphOnly(bs) ==
    [n \in 1..Len(task_order) |->
        [role |-> NodeRole(task_order[n]), backstory |-> bs[task_order[n]]]]

\* the loop "for agent_key, agent in agents_dict.items()"
Backstories(bs) ==
    [n \in 1..nodeCount |-> [role |-> NodeRole(KeySeq[n]), backstory |-> bs[KeySeq[n]]]]

\* agents, initial status events, task graph, topological sort, roots
Prepare ==
    /\ pc = "start"
    /\ backstory' = [k \in Keys |-> IF k \in NodeKeys THEN AgentBackstory(k, node_file[k])
                                                      ELSE <<>>]
    /\ events' = [n \in 1..nodeCount |-> InitEvent(KeySeq[n])]
    /\ LET sorted == TopologicalSort(links)
       IN  IF sorted.unfeasible
           THEN /\ result' = ErrorResult("cycle")
                /\ pc' = "done"
                /\ UNCHANGED <<task_order, roots, i>>
           ELSE /\ task_order' = sorted.order
                /\ roots' = Roots(links)
                /\ i' = 1
                /\ pc' = "node"
                /\ UNCHANGED result
    /\ UNCHANGED <<envVars, nodeCount, links, agent_results, all_results, j, calls, processed,
                   dispatch_log>>

\* "for node_key in task_order: current_node = nodes[node_key]"
DispatchNode ==
    /\ pc = "node"
    /\ i <= Len(task_order)
    /\ dispatch_log' = Append(dispatch_log, task_order[i])
    /\ IF KeyMissing(task_order[i])
       THEN /\ result' = ErrorResult("KeyError")
            /\ pc' = "done"
            /\ UNCHANGED j
       ELSE /\ j' = 1
            /\ pc' = "edge"
            /\ UNCHANGED result
    /\ UNCHANGED <<envVars, nodeCount, links, backstory, agent_results, all_results, task_order,
                   roots, i, events, calls, processed>>

from_key == task_order[i]
outgoing_links == Successors(links, from_key)
to_key == outgoing_links[j]

\* the out-edges of the node are exhausted: next node
NextNode ==
    /\ pc = "edge"
    /\ j > Len(outgoing_links)
    /\ i' = i + 1
    /\ pc' = "node"
    /\ UNCHANGED <<envVars, nodeCount, links, backstory, agent_results, all_results, task_order,
                   roots, j, events, calls, processed, dispatch_log, result>>

\* "to_agent = agents_dict[to_key]" outside the inner try
EdgeKeyError ==
    /\ pc = "edge"
    /\ j <= Len(outgoing_links)
    /\ KeyMissing(to_key)
    /\ result' = ErrorResult("KeyError")
    /\ pc' = "done"
    /\ UNCHANGED <<envVars, nodeCount, links, backstory, agent_results, all_results, task_order,
                   roots, i, j, events, calls, processed, dispatch_log>>

\* the stored result is announced but never added to the successor's backstory
ReuseResult_NoAppend ==
    /\ pc = "edge"
    /\ j <= Len(outgoing_links)
    /\ ~KeyMissing(to_key)
    /\ HasResult(from_key)
    /\ events' = events \o << ReuseEvent(from_key, NodeRole(from_key)), InactiveEvent(from_key) >>
    /\ processed' = Append(processed, [from |-> from_key, to |-> to_key, how |-> "reused"])
    /\ j' = j + 1
    /\ UNCHANGED <<envVars, nodeCount, links, pc, backstory, agent_results, all_results, task_order,
                   roots, i, calls, dispatch_log, result>>

\* the reused result is also added to the transcript
ReuseResult_Transcribes ==
    /\ pc = "edge"
    /\ j <= Len(outgoing_links)
    /\ ~KeyMissing(to_key)
    /\ HasResult(from_key)
    /\ backstory' = AppendResult(backstory, to_key, NodeRole(from_key), agent_results[from_key])
    /\ all_results' = Append(all_results,
                             FormattedResult(NodeRole(from_key),
                                             EdgeData(links, from_key, to_key),
                                             agent_results[from_key]))
    /\ events' = events \o << ReuseEvent(from_key, NodeRole(from_key)), InactiveEvent(from_key) >>
    /\ processed' = Append(processed, [from |-> from_key, to |-> to_key, how |-> "reused"])
    /\ j' = j + 1
    /\ UNCHANGED <<envVars, nodeCount, links, pc, agent_results, task_order, roots, i,
                   calls, dispatch_log, result>>

\* the branch "if from_key in agent_results"
ReuseResult ==
    /\ pc = "edge"
    /\ j <= Len(outgoing_links)
    /\ ~KeyMissing(to_key)
    /\ HasResult(from_key)
    /\ backstory' = AppendResult(backstory, to_key, NodeRole(from_key), agent_results[from_key])
    /\ events' = events \o << ReuseEvent(from_key, NodeRole(from_key)), InactiveEvent(from_key) >>
    /\ processed' = Append(processed, [from |-> from_key, to |-> to_key, how |-> "reused"])
    /\ j' = j + 1
    /\ UNCHANGED <<envVars, nodeCount, links, pc, agent_results, all_results, task_order, roots, i,
                   calls, dispatch_log, result>>

\* the else branch up to "await crew.kickoff_async()"
StartKickoff ==
    /\ pc = "edge"
    /\ j <= Len(outgoing_links)
    /\ ~KeyMissing(to_key)
    /\ ~HasResult(from_key)
    /\ events' = Append(events, ActiveEvent(from_key, EdgeData(links, from_key, to_key)))
    /\ calls' = Append(calls, [from |-> from_key, to |-> to_key,
                               link |-> EdgeData(links, from_key, to_key),
                               outcome |-> "pending", out |-> NoResult])
    /\ pc' = "kickoff"
    /\ UNCHANGED <<envVars, nodeCount, links, backstory, agent_results, all_results, task_order,
                   roots, i, j, processed, dispatch_log, result>>

\* kickoff_async returned: the rest of the else branch
KickoffSuccess ==
    /\ pc = "kickoff"
    /\ \E out \in Outputs :
        /\ agent_results' = [agent_results EXCEPT ![from_key] = out]
        /\ backstory' = AppendResult(AppendResult(backstory, to_key, NodeRole(from_key), out),
                                     to_key, NodeRole(from_key), out)
        /\ all_results' = Append(all_results,
                                 FormattedResult(NodeRole(from_key),
                                                 EdgeData(links, from_key, to_key), out))
        /\ calls' = [calls EXCEPT ![Len(calls)].outcome = "ok", ![Len(calls)].out = out]
    /\ events' = Append(events, InactiveEvent(from_key))
    /\ processed' = Append(processed, [from |-> from_key, to |-> to_key, how |-> "invoked"])
    /\ j' = j + 1
    /\ pc' = "edge"
    /\ UNCHANGED <<envVars, nodeCount, links, task_order, roots, i, dispatch_log, result>>

\* the exception escapes to the outer handler
KickoffFail_Abort ==
    /\ pc = "kickoff"
    /\ calls' = [calls EXCEPT ![Len(calls)].outcome = "fail"]
    /\ result' = ErrorResult("kickoff")
    /\ pc' = "done"
    /\ UNCHANGED <<envVars, nodeCount, links, backstory, agent_results, all_results, task_order,
                   roots, i, j, events, processed, dispatch_log>>

\* the failure text is stored and propagated as if it were a result
KickoffFail_Caches ==
    /\ pc = "kickoff"
    /\ calls' = [calls EXCEPT ![Len(calls)].outcome = "fail"]
    /\ agent_results' = [agent_results EXCEPT ![from_key] = "error"]
    /\ backstory' = AppendResult(backstory, to_key, NodeRole(from_key), "error")
    /\ processed' = Append(processed, [from |-> from_key, to |-> to_key, how |-> "failed"])
    /\ j' = j + 1
    /\ pc' = "edge"
    /\ UNCHANGED <<envVars, nodeCount, links, all_results, task_order, roots, i, events,
                   dispatch_log, result>>

\* kickoff_async raised: "except Exception as e: print(...)"
KickoffFail ==
    /\ pc = "kickoff"
    /\ calls' = [calls EXCEPT ![Len(calls)].outcome = "fail"]
    /\ processed' = Append(processed, [from |-> from_key, to |-> to_key, how |-> "failed"])
    /\ j' = j + 1
    /\ pc' = "edge"
    /\ UNCHANGED <<envVars, nodeCount, links, backstory, agent_results, all_results, task_order,
                   roots, i, events, dispatch_log, result>>

\* after the loops: backstories and the success result
Finish ==
    /\ pc = "node"
    /\ i > Len(task_order)
    /\ result' = [status |-> "success", message |-> all_results,
                  backstories |-> Backstories(backstory), branches_count |-> Len(roots)]
    /\ pc' = "done"
    /\ UNCHANGED <<envVars, nodeCount, links, backstory, agent_results, all_results, task_order,
                   roots, i, j, events, calls, processed, dispatch_log>>

Next ==
    \/ Prepare
    \/ DispatchNode
    \/ NextNode
    \/ EdgeKeyError
    \/ ReuseResult
    \/ StartKickoff
    \/ KickoffSuccess
    \/ KickoffFail
    \/ Finish

Spec == Init /\ [][Next]_vars

\* ------------------------------------------------------------------
\* The run with files on its nodes: building the agents can raise.

MaxPrepLinks == 2

\* the capabilities the agent loop calls that can raise, for this diagram
PrepFaults ==
    (IF nodeCount >= 1 THEN {"choose_llm"} ELSE {})
    \cup (IF \E k \in NodeKeys : node_file[k] = "rag" THEN {"choose_tool"} ELSE {})
    \cup (IF \E k \in NodeKeys : node_file[k] \in {"Force", "Yes"}
          THEN {"crewai_summarize"} ELSE {})

\* choose_llm, choose_tool or crewai_summarize raises inside the agent loop:
\* nothing catches it before the outer handler of the function
AgentInitFails ==
    /\ pc = "start"
    /\ \E f \in PrepFaults : result' = ErrorResult(f)
    /\ pc' = "done"
    /\ UNCHANGED <<envVars, nodeCount, links, backstory, agent_results, all_results,
                   task_order, roots, i, j, events, calls, processed, dispatch_log>>

InitPrep ==
    /\ nodeCount \in 0..Len(KeySeq)
    /\ links \in SeqsUpTo(LinkSet, MaxPrepLinks)
    /\ node_file \in [Keys -> FileUses]
    /\ \A k \in Keys \ NodeKeys : node_file[k] = "none"
    /\ RunStart
    /\ AuthOff
    /\ PubOff
    /\ TwoOff

NextPrep ==
    \/ AgentInitFails
    \/ Prepare
    \/ DispatchNode
    \/ NextNode
    \/ EdgeKeyError
    \/ ReuseResult
    \/ StartKickoff
    \/ KickoffSuccess
    \/ KickoffFail
    \/ Finish

SpecPrep == InitPrep /\ [][NextPrep]_vars

\* ------------------------------------------------------------------
\* The run together with manager.broadcast and the observers' endpoints.
\* Every event of the run is one "await manager.broadcast(...)": the run goes
\* on when the broadcast has returned.

MaxPubLinks == 2

Conns == <<"c1", "c2">>

twoVars == <<file_use, oracle, summ, rpc, chroma, txt, ctx, got, rresult>>

\* list.remove(c) guarded by "if c in list" (ConnectionManager.disconnect)
RECURSIVE Remove(_, _)
Remove(s, c) ==
    IF s = <<>> THEN <<>>
    ELSE IF Head(s) = c THEN Tail(s)
    ELSE <<Head(s)>> \o Remove(Tail(s), c)

RECURSIVE RemoveAll(_, _)
RemoveAll(s, cs) ==
    IF cs = <<>> THEN s ELSE RemoveAll(Remove(s, Head(cs)), Tail(cs))

\* the run is not inside a broadcast
PubIdle == bpc = "idle" /\ pubDone = Len(events)

\* broadcast is entered for the next event of the run
BroadcastBegin ==
    /\ bpc = "idle"
    /\ pubDone < Len(events)
    /\ sent' = <<>>
    /\ IF active_connections = <<>>
       THEN /\ pubDone' = pubDone + 1
            /\ UNCHANGED <<bpc, bidx, cur, disconnected>>
       ELSE /\ disconnected' = <<>>
            /\ cur' = active_connections[1]
            /\ bidx' = 2
            /\ bpc' = "send"
            /\ UNCHANGED pubDone
    /\ UNCHANGED <<runVars, node_file, twoVars, authVars, active_connections>>

\* the for loop takes the next connection of the live list, or ends: the
\* failed connections are disconnected and broadcast returns
Advance(disc) ==
    IF bidx <= Len(active_connections)
    THEN /\ cur' = active_connections[bidx]
         /\ bidx' = bidx + 1
         /\ disconnected' = disc
         /\ UNCHANGED <<bpc, pubDone, active_connections>>
    ELSE /\ active_connections' = RemoveAll(active_connections, disc)
         /\ bpc' = "idle"
         /\ pubDone' = pubDone + 1
         /\ cur' = "none"
         /\ bidx' = 0
         /\ disconnected' = <<>>

\* send_json returns
SendOk ==
    /\ bpc = "send"
    /\ sent' = Append(sent, [to |-> cur, ok |-> TRUE])
    /\ Advance(disconnected)
    /\ UNCHANGED <<runVars, node_file, twoVars, authVars>>

\* a failing send that would abort the run
SendFail_Propagates ==
    /\ bpc = "send"
    /\ sent' = Append(sent, [to |-> cur, ok |-> FALSE])
    /\ bpc' = "idle"
    /\ pubDone' = Len(events)
    /\ cur' = "none"
    /\ bidx' = 0
    /\ disconnected' = <<>>
    /\ result' = ErrorResult("publish")
    /\ pc' = "done"
    /\ UNCHANGED <<nodeCount, links, backstory, agent_results, all_results, task_order,
                   roots, i, j, events, calls, processed, dispatch_log>>
    /\ UNCHANGED <<node_file, twoVars, authVars, active_connections>>

\* the failure is caught but the connection is not noted
SendFail_Forgets ==
    /\ bpc = "send"
    /\ sent' = Append(sent, [to |-> cur, ok |-> FALSE])
    /\ Advance(disconnected)
    /\ UNCHANGED <<runVars, node_file, twoVars, authVars>>

\* send_json raises: caught, the connection is noted in "disconnected"
SendFail ==
    /\ bpc = "send"
    /\ sent' = Append(sent, [to |-> cur, ok |-> FALSE])
    /\ Advance(Append(disconnected, cur))
    /\ UNCHANGED <<runVars, node_file, twoVars, authVars>>

\* an observer's endpoint ends (its finally clause), at any await of the run
EndpointDisconnect(c) ==
    /\ Contains(active_connections, c)
    /\ active_connections' = Remove(active_connections, c)
    /\ UNCHANGED <<runVars, node_file, twoVars, authVars, bpc, bidx, cur, disconnected, pubDone, sent>>

InitPub ==
    /\ nodeCount \in 0..Len(KeySeq)
    /\ links \in SeqsUpTo(LinkSet, MaxPubLinks)
    /\ RunStart
    /\ AuthOff
    /\ NoFiles
    /\ active_connections \in { SubSeq(Conns, 1, n) : n \in 0..Len(Conns) }
    /\ bpc = "idle"
    /\ bidx = 0
    /\ cur = "none"
    /\ disconnected = <<>>
    /\ pubDone = 0
    /\ sent = <<>>
    /\ TwoOff

\* a step of the run: only between broadcasts
RunStep == PubIdle /\ Next

NextPub ==
    \/ PubIdle /\ Prepare
    \/ PubIdle /\ DispatchNode
    \/ PubIdle /\ NextNode
    \/ PubIdle /\ EdgeKeyError
    \/ PubIdle /\ ReuseResult
    \/ PubIdle /\ StartKickoff
    \/ PubIdle /\ KickoffSuccess
    \/ PubIdle /\ KickoffFail
    \/ PubIdle /\ Finish
    \/ BroadcastBegin
    \/ SendOk
    \/ SendFail
    \/ \E c \in {Conns[n] : n \in 1..Len(Conns)} : EndpointDisconnect(c)

SpecPub == InitPub /\ [][NextPub]_vars

\* ------------------------------------------------------------------
\* Two runs of execute_process_from_diagram in one process, interleaved at
\* their awaits. Each runs the diagram A -> B whose node A names the same file
\* of the same folder. The dicts and lists of a run are locals of its own
\* call; what the runs share is the store under "db/" and the folder.

Summaries == {"s1", "s2"}

pubVars == <<active_connections, bpc, bidx, cur, disconnected, pubDone, sent>>

\* the dict a run returns: a failed invocation leaves the transcript empty
RunResult(out, c) ==
    [status |-> "success",
     message |-> IF out = "fail" THEN <<>> ELSE <<out>>,
     context |-> c]

\* reset_chroma, then the agent loop up to its first await
StartRun(r) ==
    /\ rpc[r] = "off"
    /\ chroma' = IF file_use[r] = "rag" THEN {r} ELSE {}
    /\ IF file_use[r] = "Force" \/ (file_use[r] = "Yes" /\ txt = "none")
       THEN /\ rpc' = [rpc EXCEPT ![r] = "summarizing"]
            /\ UNCHANGED ctx
       ELSE /\ rpc' = [rpc EXCEPT ![r] = "ready"]
            /\ ctx' = [ctx EXCEPT ![r] = IF file_use[r] = "Yes" THEN txt ELSE "none"]
    /\ UNCHANGED <<runVars, node_file, pubVars, authVars, file_use, oracle, summ, txt, got, rresult>>

\* crewai_summarize returns: it has written "<pdf>.txt"
SummaryReturn(r) ==
    /\ rpc[r] = "summarizing"
    /\ txt' = summ[r]
    /\ ctx' = [ctx EXCEPT ![r] = summ[r]]
    /\ rpc' = [rpc EXCEPT ![r] = "ready"]
    /\ UNCHANGED <<runVars, node_file, pubVars, authVars, file_use, oracle, summ, chroma, got, rresult>>

\* the run reaches "await crew.kickoff_async()" of its edge
KickoffBegin(r) ==
    /\ rpc[r] = "ready"
    /\ rpc' = [rpc EXCEPT ![r] = "kick"]
    /\ UNCHANGED <<runVars, node_file, pubVars, authVars, file_use, oracle, summ, chroma, txt, ctx, got,
                   rresult>>

\* inside the invocation the tool of the agent searches the store
ToolQuery(r) ==
    /\ rpc[r] = "kick"
    /\ file_use[r] = "rag"
    /\ got' = [got EXCEPT ![r] = r \in chroma]
    /\ rpc' = [rpc EXCEPT ![r] = "queried"]
    /\ UNCHANGED <<runVars, node_file, pubVars, authVars, file_use, oracle, summ, chroma, txt, ctx, rresult>>

\* what the invocation can answer: with its index gone, anything
KickoffOutcomes(r) ==
    IF file_use[r] = "rag" /\ ~got[r] THEN Outputs \cup {"fail"} ELSE {oracle[r]}

\* the invocation ends and the run returns
KickoffReturn(r) ==
    /\ \/ rpc[r] = "kick" /\ file_use[r] # "rag"
       \/ rpc[r] = "queried"
    /\ \E out \in KickoffOutcomes(r) :
          rresult' = [rresult EXCEPT ![r] = RunResult(out, ctx[r])]
    /\ rpc' = [rpc EXCEPT ![r] = "done"]
    /\ UNCHANGED <<runVars, node_file, pubVars, authVars, file_use, oracle, summ, chroma, txt, ctx, got>>

InitTwo ==
    /\ nodeCount = 2
    /\ links = << [from |-> "A", to |-> "B"] >>
    /\ RunStart
    /\ AuthOff
    /\ NoFiles
    /\ PubOff
    /\ file_use \in [Runs -> FileUses]
    /\ oracle \in [Runs -> Outputs \cup {"fail"}]
    /\ summ \in [Runs -> Summaries]
    /\ rpc = [r \in Runs |-> "off"]
    /\ chroma = {}
    /\ txt = "none"
    /\ ctx = [r \in Runs |-> "none"]
    /\ got = [r \in Runs |-> FALSE]
    /\ rresult = [r \in Runs |-> [status |-> "none"]]

NextTwo ==
    \/ \E r \in Runs : StartRun(r)
    \/ \E r \in Runs : SummaryReturn(r)
    \/ \E r \in Runs : KickoffBegin(r)
    \/ \E r \in Runs : ToolQuery(r)
    \/ \E r \in Runs : KickoffReturn(r)

SpecTwo == InitTwo /\ [][NextTwo]_vars

\* ------------------------------------------------------------------
\* The session of one logged-in user: requests carrying a session cookie are
\* handled by their endpoint and then by extend_session_middleware.

MaxTokens == 3

Kinds == {"user", "check", "logout"}

InProgress == { q \in Reqs : req[q].pos \in {"handling", "middleware"} }

\* every token is accepted whatever the blacklist holds
is_token_valid_Always(t) == TRUE

\* "return token not in invalidated_tokens"
is_token_valid(t) == t \notin invalidated_tokens

\* get_current_user returns the user: the token is not blacklisted and
\* jwt.decode does not raise (the user of the session exists and is active)
Accepts(t) == is_token_valid(t) /\ t \notin expired

\* a request arrives with one of the session's tokens as its cookie
Arrive(q, kind, t) ==
    /\ req[q].pos \in {"idle", "done"}
    /\ t \in tokens
    /\ Cardinality(tokens) + Cardinality(InProgress) < MaxTokens
    /\ req' = [req EXCEPT ![q] = [kind |-> kind, token |-> t, pos |-> "handling"]]
    /\ answer' = [answer EXCEPT ![q] = "none"]
    /\ cookie' = [cookie EXCEPT ![q] = 0]
    /\ UNCHANGED <<runVars, node_file, pubVars, twoVars, tokens, invalidated_tokens, expired>>

\* call_next: the endpoint of the request
Handle(q) ==
    /\ req[q].pos = "handling"
    /\ req' = [req EXCEPT ![q].pos = "middleware"]
    /\ IF req[q].kind = "logout"
       THEN /\ invalidated_tokens' = invalidated_tokens \cup {req[q].token}
            /\ answer' = [answer EXCEPT ![q] = "logout"]
       ELSE /\ answer' = [answer EXCEPT ![q] = IF Accepts(req[q].token) THEN "accepted"
                                                                         ELSE "rejected"]
            /\ UNCHANGED invalidated_tokens
    /\ UNCHANGED <<runVars, node_file, pubVars, twoVars, tokens, expired, cookie>>

\* extend_session_middleware after call_next
Middleware(q) ==
    /\ req[q].pos = "middleware"
    /\ req' = [req EXCEPT ![q].pos = "done"]
    /\ IF Accepts(req[q].token)
       THEN LET fresh == Cardinality(tokens) + 1
            IN  /\ tokens' = tokens \cup {fresh}
                /\ cookie' = [cookie EXCEPT ![q] = fresh]
       ELSE UNCHANGED <<tokens, cookie>>
    /\ UNCHANGED <<runVars, node_file, pubVars, twoVars, invalidated_tokens, expired, answer>>

\* the "exp" of a token passes
Expire(t) ==
    /\ t \in tokens \ expired
    /\ expired' = expired \cup {t}
    /\ UNCHANGED <<runVars, node_file, pubVars, twoVars, tokens, invalidated_tokens, req, answer,
                   cookie>>

\* after login: one token issued
InitAuth ==
    /\ nodeCount = 0
    /\ links = <<>>
    /\ RunStart
    /\ NoFiles
    /\ PubOff
    /\ TwoOff
    /\ tokens = {1}
    /\ invalidated_tokens = {}
    /\ expired = {}
    /\ req = [q \in Reqs |-> [kind |-> "none", token |-> 0, pos |-> "idle"]]
    /\ answer = [q \in Reqs |-> "none"]
    /\ cookie = [q \in Reqs |-> 0]

NextAuth ==
    \/ \E q \in Reqs, kind \in Kinds, t \in 1..MaxTokens : Arrive(q, kind, t)
    \/ \E q \in Reqs : Handle(q)
    \/ \E q \in Reqs : Middleware(q)
    \/ \E t \in 1..MaxTokens : Expire(t)

SpecAuth == InitAuth /\ [][NextAuth]_vars

\* ================================================================ claims
\* The diagram as a plain edge relation, independent of the graph library
EdgePairs == { <<links[n].from, links[n].to>> : n \in 1..Len(links) }

Endpoints == { links[n].from : n \in 1..Len(links) } \cup { links[n].to : n \in 1..Len(links) }

RECURSIVE Closure(_)
Closure(S) ==
    LET T == S \cup { v \in Keys : \E u \in S : <<u, v>> \in EdgePairs }
    IN  IF T = S THEN S ELSE Closure(T)

\* the keys reachable from u by one edge or more
ReachableFrom(u) == Closure({ v \in Keys : <<u, v>> \in EdgePairs })

HasCycle == \E u \in Keys : u \in ReachableFrom(u)

UndeclaredEndpoint == \E k \in Endpoints : k \notin NodeKeys

CallsOf(k) == { n \in 1..Len(calls) : calls[n].from = k }

Done == pc = "done"

\* C1 (as stated): in a run the task executor is invoked at most once per
\* source node, whatever the outcomes of the invocations.
C1_AtMostOncePerNode == \A k \in Keys : Cardinality(CallsOf(k)) <= 1

\* C1 (amended): per node at most one invocation succeeds, and the task
\* executor is invoked again for a node only when every earlier invocation
\* for that node failed; so a node is invoked at most once unless an
\* invocation for it fails, and never more often than it has outgoing edges.
C1_AtMostOneSuccessPerNode ==
    \A k \in Keys :
        /\ Cardinality({ n \in CallsOf(k) : calls[n].outcome = "ok" }) <= 1
        /\ \A n, m \in CallsOf(k) : n < m => calls[n].outcome = "fail"
        /\ Cardinality(CallsOf(k)) <= Cardinality({ v \in Keys : <<k, v>> \in EdgePairs })

\* a finished run in which the first invocation for a node failed and the
\* invocation for its second outgoing edge succeeded
C1_Witness ==
    /\ Done
    /\ result.status = "success"
    /\ \E k \in Keys :
        /\ Cardinality(CallsOf(k)) = 2
        /\ \E n \in CallsOf(k) : calls[n].outcome = "ok"

\* C2: for an acyclic diagram over declared nodes the dispatch order is a
\* topological order: every node of an edge occurs exactly once in it, and
\* for every edge u -> v, u comes before v and the outgoing edges of u have
\* been processed when v is dispatched.
C2_TopologicalOrder ==
    (pc # "start" /\ ~HasCycle /\ ~UndeclaredEndpoint) =>
        /\ \A k \in Keys :
            Cardinality({ n \in 1..Len(task_order) : task_order[n] = k })
                = IF k \in Endpoints THEN 1 ELSE 0
        /\ \A e \in EdgePairs : IndexOf(task_order, e[1]) < IndexOf(task_order, e[2])
        /\ Len(dispatch_log) <= Len(task_order)
        /\ dispatch_log = SubSeq(task_order, 1, Len(dispatch_log))
        /\ Done => dispatch_log = task_order
        /\ \A n \in 1..Len(dispatch_log) : \A e \in EdgePairs :
            e[2] = dispatch_log[n] =>
                \E m \in 1..Len(processed) : processed[m].from = e[1] /\ processed[m].to = e[2]

\* a finished run over three nodes whose order differs from the order in
\* which the links introduce the nodes
C2_Witness ==
    /\ Done
    /\ result.status = "success"
    /\ ~HasCycle
    /\ Len(task_order) = Len(KeySeq)
    /\ task_order # GraphNodes(links)

\* C3: a diagram with a directed cycle (a self-loop, or a cycle in one
\* component only) ends with status "error" and a message, and no task
\* executor invocation happens.
C3_CycleRejected ==
    HasCycle =>
        /\ calls = <<>>
        /\ pc \in {"start", "done"}
        /\ Done => (result.status = "error" /\ result.message = "cycle")

\* a rejected diagram with a self-loop beside a declared acyclic edge whose
\* source is a root
C3_Witness ==
    /\ Done
    /\ nodeCount = Len(KeySeq)
    /\ \E n \in 1..Len(links) : links[n].from = links[n].to
    /\ \E m \in 1..Len(links) :
        /\ links[m].from \notin ReachableFrom(links[m].from)
        /\ links[m].to \notin ReachableFrom(links[m].to)
        /\ \A n \in 1..Len(links) : links[n].to # links[m].from

\* C4 (as stated): a diagram with an edge whose source or destination is not
\* declared is rejected before any dispatch: no task executor invocation.
C4_NoInvocationWithUndeclaredEndpoint == UndeclaredEndpoint => calls = <<>>

\* C5: a diagram with an edge whose source or destination is not declared
\* never ends with status "success"; the run ends with status "error".
C5_UndeclaredEndpointIsError ==
    UndeclaredEndpoint =>
        /\ result.status # "success"
        /\ Done => result.status = "error"

\* the undeclared key is reached only after an invocation has succeeded
C5_Witness ==
    /\ Done
    /\ UndeclaredEndpoint
    /\ ~HasCycle
    /\ result.status = "error"
    /\ \E n \in 1..Len(calls) : calls[n].outcome = "ok"

\* C6: when the task executor fails for an edge, nothing is stored in
\* agent_results, no transcript entry is added, no backstory changes, and
\* the run goes on with the next edge.
C6_FailureLeavesNoTrace ==
    [][(pc = "kickoff" /\ calls'[Len(calls')].outcome = "fail") =>
          /\ agent_results' = agent_results
          /\ all_results' = all_results
          /\ backstory' = backstory
          /\ pc' = "edge"
          /\ i' = i
          /\ j' = j + 1
          /\ result' = result]_vars

\* a failed invocation followed by a later invocation in a run that ended
C6_Witness ==
    /\ Done
    /\ \E n \in 1..Len(calls) :
        /\ calls[n].outcome = "fail"
        /\ n < Len(calls)
        /\ ~HasResult(calls[n].from)
        /\ backstory[calls[n].to] = InitialBackstory(calls[n].to)

C8_ContextBeforeDispatch ==
    pc \in {"edge", "kickoff"} =>
        LET v == task_order[i]
        IN  \A u \in Keys : <<u, v>> \in EdgePairs =>
              /\ \E n \in 1..Len(processed) : processed[n].from = u /\ processed[n].to = v
              /\ \A n \in 1..Len(processed) :
                    (processed[n].from = u /\ processed[n].to = v
                        /\ processed[n].how \in {"invoked", "reused"}) =>
                      /\ HasResult(u)
                      /\ SubSeq(backstory[v], 1, 1) = InitialBackstory(v)
                      /\ \E q \in 2..Len(backstory[v]) :
                            backstory[v][q] = ResultEntry(NodeRole(u), agent_results[u])

\* a node with an outgoing edge is dispatched after an incoming edge was
\* served by reuse
C8_Witness ==
    /\ pc = "edge"
    /\ j = 1
    /\ j <= Len(outgoing_links)
    /\ \E n \in 1..Len(processed) : processed[n].to = task_order[i] /\ processed[n].how = "reused"

\* C9 (as stated): every "active" event of a node is directly followed by an
\* "inactive" event of that node before the next edge is processed, whether
\* the invocation succeeded or failed.
C9_ActiveThenInactive ==
    pc \in {"node", "edge", "done"} =>
        \A n \in 1..Len(events) :
            events[n].status = "active" =>
                /\ n < Len(events)
                /\ events[n + 1] = InactiveEvent(events[n].agent_id)

Returned == Done /\ PubIdle

\* a send of the last broadcast failed
SomeSendFailed == \E n \in 1..Len(sent) : ~sent[n].ok

\* C11: a publish failure never reaches the run. No step of a broadcast
\* (entering it with or without observers, a send that succeeds or fails, its
\* return) changes anything of the run; a broadcast in progress can always go
\* on to its return whatever the sends do; and the run never ends in error
\* for a diagram without a cycle and without an undeclared endpoint, whatever
\* the observers' sends did.
C11_PublishFailureAbsorbed ==
    /\ [][(sent' # sent \/ bpc' # bpc \/ pubDone' # pubDone) => UNCHANGED runVars]_vars
    /\ [](bpc = "send" => ENABLED SendFail /\ ENABLED SendOk)
    /\ []((Done /\ result.status = "error") => (HasCycle \/ UndeclaredEndpoint))
    /\ []((~PubIdle /\ bpc = "idle") => ENABLED BroadcastBegin)

\* the run returned "success" with a transcript although a send of its last
\* broadcast failed and no observer is left
C11_Witness ==
    /\ Returned
    /\ result.status = "success"
    /\ all_results # <<>>
    /\ SomeSendFailed
    /\ active_connections = <<>>

\* ---------------------------------------------------------------- C12
\* C12 (as stated): publishing never blocks the run: while a send to an
\* observer is in flight and the run has not finished, the run can take its
\* next step.
C12_DispatchNeverWaitsForSend ==
    (bpc = "send" /\ ~Done) => ENABLED RunStep

\* ---------------------------------------------------------------- C13
\* C13 (as stated): a run ends with status "error" only when the diagram has a
\* cycle or an edge with an undeclared endpoint; a failure of any other
\* capability is absorbed and does not make the result an error.
C13_OnlyFatalKindsAreErrors ==
    (Done /\ result.status = "error") => (HasCycle \/ UndeclaredEndpoint)

\* ---------------------------------------------------------------- C14
OutDegreeOf(k) == Cardinality({ v \in Keys : <<k, v>> \in EdgePairs })

HasEntry(v, u, out) ==
    \E q \in 1..Len(backstory[v]) : backstory[v][q] = ResultEntry(NodeRole(u), out)

\* C14: once the invocation for a node succeeded with output x, every later
\* outgoing edge of the node is served from the stored result without an
\* invocation, and the backstory of every successor so served, like that of
\* the first one, holds the same x.
C14_ReuseSameOutput ==
    \A n \in 1..Len(processed) :
        LET u == processed[n].from
            first == { c \in CallsOf(u) : calls[c].outcome = "ok" }
        IN  /\ processed[n].how = "reused" =>
                /\ Cardinality(first) = 1
                /\ \A c \in first :
                    /\ agent_results[u] = calls[c].out
                    /\ HasEntry(processed[n].to, u, calls[c].out)
                    /\ HasEntry(calls[c].to, u, calls[c].out)
                    /\ \A d \in CallsOf(u) : d <= c
            /\ processed[n].how = "invoked" =>
                \A m \in (n + 1)..Len(processed) :
                    processed[m].from = u => processed[m].how = "reused"

\* a finished run: a node with two successors, invoked once, its second edge
\* served from the stored result, both successors holding the same output
C14_Witness ==
    /\ Done
    /\ result.status = "success"
    /\ \E u \in Keys :
        /\ OutDegreeOf(u) = 2
        /\ Cardinality(CallsOf(u)) = 1
        /\ HasResult(u)
        /\ \A v \in Keys : <<u, v>> \in EdgePairs => HasEntry(v, u, agent_results[u])

\* ---------------------------------------------------------------- C15
\* C15: once agent_results holds a value for a node, no step of the run
\* overwrites or removes it.
C15_CacheWrittenOnce ==
    [][\A k \in Keys : agent_results[k] # NoResult => agent_results'[k] = agent_results[k]]_vars

\* an invocation is in flight while the result of another node is stored
C15_Witness ==
    /\ pc = "kickoff"
    /\ \E k \in Keys : k # from_key /\ HasResult(k)

\* ---------------------------------------------------------------- C16
\* what run r returns when no other run is started
AloneResult(r) ==
    RunResult(oracle[r], IF file_use[r] \in {"Force", "Yes"} THEN summ[r] ELSE "none")

\* C16 (as stated): whatever the other run does, a run returns the result it
\* returns when run alone with the same outcomes of its providers.
C16_RunsDoNotInterfere ==
    \A r \in Runs : rpc[r] = "done" => rresult[r] = AloneResult(r)

\* ---------------------------------------------------------------- C18
\* C18: on success, backstories has one entry per declared node key, in the
\* order of declaration, pure sinks and nodes outside every edge included,
\* and each entry pairs the role of the node with its final backstory.
C18_BackstoriesPerDeclaredNode ==
    (Done /\ result.status = "success") =>
        /\ Len(result.backstories) = nodeCount
        /\ \A n \in 1..nodeCount :
            /\ result.backstories[n].role = NodeRole(KeySeq[n])
            /\ result.backstories[n].backstory = backstory[KeySeq[n]]
            /\ SubSeq(result.backstories[n].backstory, 1, 1) = InitialBackstory(KeySeq[n])

\* a successful run with a node outside every edge and a sink that received
\* a result
C18_Witness ==
    /\ Done
    /\ result.status = "success"
    /\ \E k \in NodeKeys : k \notin Endpoints
    /\ \E n \in 1..nodeCount :
        /\ OutDegreeOf(KeySeq[n]) = 0
        /\ Len(result.backstories[n].backstory) > 1

\* ---------------------------------------------------------------- C19
SuccessesInto(k) ==
    { n \in 1..Len(processed) : processed[n].to = k /\ processed[n].how \in {"invoked", "reused"} }

\* C19 (as stated): every successful edge into a node, invoked or served from
\* the stored result, makes the backstory of the node grow by exactly one
\* "result of <role>" entry.
C19_OneEntryPerSuccess ==
    pc # "start" =>
        \A k \in NodeKeys :
            Len(backstory[k]) = Len(InitialBackstory(k)) + Cardinality(SuccessesInto(k))

\* ---------------------------------------------------------------- C20
\* v has a direct predecessor u and a predecessor w that itself follows u
DifferentDepths(v) ==
    \E u, w \in Keys : {<<u, v>>, <<w, v>>, <<u, w>>} \subseteq EdgePairs

TraversedInto(v) == { n \in 1..Len(processed) : processed[n].to = v }

RECURSIVE DeclaredFrom(_, _, _)
DeclaredFrom(ls, u, n) ==
    IF n > Len(ls) THEN <<>>
    ELSE (IF ls[n].from = u THEN << ls[n].to >> ELSE <<>>) \o DeclaredFrom(ls, u, n + 1)

\* the destinations of the edges of u the run has processed, in processing order
RECURSIVE ProcessedFrom(_, _)
ProcessedFrom(u, n) ==
    IF n > Len(processed) THEN <<>>
    ELSE (IF processed[n].from = u THEN << processed[n].to >> ELSE <<>>)
         \o ProcessedFrom(u, n + 1)

\* two declared links share their (from, to) pair
DuplicateLink ==
    \E m, n \in 1..Len(links) : m < n /\ links[m] = links[n]

\* C21 (as stated): in a successful run every declared link, a repeated
\* (from, to) pair included, is processed exactly once, the links of a node in
\* their declaration order.
C21_EveryDeclaredEdgeOnce ==
    (Done /\ result.status = "success") =>
        \A u \in Keys : ProcessedFrom(u, 1) = DeclaredFrom(links, u, 1)

\* ---------------------------------------------------------------- C22
\* the transcript entries of the invocations that succeeded, in call order
RECURSIVE SuccessfulCalls(_)
SuccessfulCalls(n) ==
    IF n > Len(calls) THEN <<>>
    ELSE (IF calls[n].outcome = "ok"
          THEN << [agent |-> NodeRole(calls[n].from), description |-> calls[n].link,
                   result |-> calls[n].out] >>
          ELSE <<>>)
         \o SuccessfulCalls(n + 1)

\* C22: the transcript holds exactly one entry per successful invocation, in
\* the order of the invocations, and the successful result returns it; reused
\* and failed edges add nothing.
C22_TranscriptIsSuccessfulCalls ==
    /\ all_results = SuccessfulCalls(1)
    /\ (Done /\ result.status = "success") => result.message = SuccessfulCalls(1)

\* a successful run with an invoked edge, a reused edge and a failed invocation
C22_Witness ==
    /\ Done
    /\ result.status = "success"
    /\ Len(all_results) = 1
    /\ \E n \in 1..Len(processed) : processed[n].how = "reused"
    /\ \E n \in 1..Len(processed) : processed[n].how = "failed"

\* ---------------------------------------------------------------- C23
\* the two events of an edge of u served from the stored result
ReusePair(u) ==
    << [agent_id |-> u, status |-> "active", task |-> "reuse", role |-> NodeRole(u), link |-> 0],
       [agent_id |-> u, status |-> "inactive", task |-> "empty", role |-> "", link |-> 0] >>

\* C23: a step that serves an edge of u from the stored result publishes
\* exactly nodeActive(u, reuse text) followed by nodeInactive(u), and invokes
\* nothing.
C23_ReuseEvents ==
    [][(/\ Len(processed') = Len(processed) + 1
        /\ processed'[Len(processed')].how = "reused")
       => /\ events' = events \o ReusePair(processed'[Len(processed')].from)
          /\ calls' = calls]_vars

\* an edge has just been served from the stored result
C23_Witness ==
    /\ processed # <<>>
    /\ processed[Len(processed)].how = "reused"
    /\ Len(events) >= 2
    /\ SubSeq(events, Len(events) - 1, Len(events)) = ReusePair(processed[Len(processed)].from)

\* ---------------------------------------------------------------- C24
IsPrefix(s, t) == Len(s) <= Len(t) /\ SubSeq(t, 1, Len(s)) = s

\* C24: no step of the run changes the node set or the links; every step
\* leaves each backstory a prefix of its new value; after the agents are
\* built only the processing of an edge changes a backstory, and only that of
\* the edge's destination.
C24_OnlyContextsGrow ==
    [][/\ nodeCount' = nodeCount
       /\ links' = links
       /\ \A k \in Keys : IsPrefix(backstory[k], backstory'[k])
       /\ pc # "start" =>
            \A k \in Keys :
                backstory'[k] # backstory[k] =>
                    /\ pc \in {"edge", "kickoff"}
                    /\ j <= Len(outgoing_links)
                    /\ k = to_key]_vars

\* a finished run in which a node received results from two predecessors
\* while another node kept its initial backstory
C24_Witness ==
    /\ Done
    /\ result.status = "success"
    /\ \E k \in NodeKeys :
        \E p, q \in 1..Len(backstory[k]) :
            /\ backstory[k][p].kind = "result"
            /\ backstory[k][q].kind = "result"
            /\ backstory[k][p].role # backstory[k][q].role
    /\ \E k \in NodeKeys : backstory[k] = InitialBackstory(k)

\* ---------------------------------------------------------------- C25
\* the get-or-compute calls whose computation of the summary is in progress
Computing == { r \in Runs : file_use[r] = "Yes" /\ rpc[r] = "summarizing" }

\* C25 (as stated): the summary of a file is computed once: of the
\* get-or-compute calls for it, sequential or concurrent, never two compute.
C25_SummaryComputedOnce == Cardinality(Computing) <= 1

\* ---------------------------------------------------------------- C26
\* the sends of the last broadcast addressed to c
SendsTo(c) == { m \in 1..Len(sent) : sent[m].to = c }

\* the last broadcast of the run has returned
BroadcastReturned == bpc = "idle" /\ pubDone >= 1

\* C26 (as stated): when a broadcast has returned, every connection still in
\* active_connections (no connection joins during the run, so it was there
\* for the whole broadcast) was sent the message exactly once.
C26_EveryPresentConnectionSent ==
    BroadcastReturned =>
        \A n \in 1..Len(active_connections) :
            Cardinality(SendsTo(active_connections[n])) = 1

\* ---------------------------------------------------------------- C29
\* the connections whose send failed in the last broadcast
FailedConns == { sent[m].to : m \in { q \in 1..Len(sent) : ~sent[q].ok } }

C27_InvalidatedNeverAccepted ==
    /\ [][invalidated_tokens \subseteq invalidated_tokens']_vars
    /\ [][\A q \in Reqs :
            (/\ req[q].pos = "handling"
             /\ req'[q].pos = "middleware"
             /\ req[q].kind \in {"user", "check"}
             /\ req[q].token \in invalidated_tokens)
            => answer'[q] = "rejected"]_vars
    /\ [][\A q \in Reqs :
            (/\ req[q].pos = "middleware"
             /\ req'[q].pos = "done"
             /\ req[q].token \in invalidated_tokens)
            => (cookie'[q] = 0 /\ tokens' = tokens)]_vars

\* a request carrying a token that was passed to logout, and not expired, has
\* been rejected by its endpoint and has left the middleware without a cookie
C27_Witness ==
    \E q \in Reqs :
        /\ req[q].pos = "done"
        /\ req[q].kind = "user"
        /\ req[q].token \in invalidated_tokens
        /\ req[q].token \notin expired
        /\ answer[q] = "rejected"
        /\ cookie[q] = 0

\* ---------------------------------------------------------------- C28
\* a logout request has been handled
LoggedOut == \E q \in Reqs : req[q].kind = "logout" /\ req[q].pos \in {"middleware", "done"}

\* C28 (as stated): once a logout request has been handled, no token issued
\* for the session is accepted.
C28_LogoutEndsSession ==
    LoggedOut => \A t \in tokens : ~Accepts(t)

\* ---------------------------------------------------------------- C30
\* the processed entries of the edge (u, v)
ProcessedEdge(u, v) == { n \in 1..Len(processed) : processed[n].from = u /\ processed[n].to = v }

\* C30 (as stated): at the end of a successful run every successor of a node
\* with a stored result has that result in its backstory.
C30_OutputReachesAllSuccessors ==
    (Done /\ result.status = "success") =>
        \A u, v \in Keys :
            (<<u, v>> \in EdgePairs /\ agent_results[u] # NoResult)
                => HasEntry(v, u, agent_results[u])

\* C30 (amended): at the end of a successful run every edge (u, v) of a node
\* with a stored result has been processed, and its destination has the
\* result in its backstory unless the invocation for that very edge failed.
C30_OutputReachesServedSuccessors ==
    (Done /\ result.status = "success") =>
        \A u, v \in Keys :
            (<<u, v>> \in EdgePairs /\ agent_results[u] # NoResult) =>
                /\ ProcessedEdge(u, v) # {}
                /\ \A n \in ProcessedEdge(u, v) :
                    processed[n].how # "failed" => HasEntry(v, u, agent_results[u])

\* a successful run in which the invocation for the first edge of a node
\* failed and the one for its second edge succeeded: the first successor is
\* left with its initial backstory, the second holds the result
C30_Witness ==
    /\ Done
    /\ result.status = "success"
    /\ \E m, n \in 1..Len(processed) :
        /\ m < n
        /\ processed[m].from = processed[n].from
        /\ processed[m].how = "failed"
        /\ processed[n].how = "invoked"
        /\ backstory[processed[m].to] = InitialBackstory(processed[m].to)
        /\ HasEntry(processed[n].to, processed[n].from, agent_results[processed[n].from])

====
